---- MODULE Spec2Model ----
(***************************************************************************)
(* Model of pls_bonus_calculation.py: the draw-history parser, the report  *)
(* locator, the ticket extractor, the prize engine, the report writer and  *)
(* the orchestrator main_process.                                          *)
(*                                                                         *)
(* Text is modelled structurally: a period code is the sequence of its     *)
(* characters (digits 0..9, or the string "x" for any non-digit), a CSV    *)
(* row is the sequence of its fields, the log file is the sequence of the  *)
(* blocks written to it (newest first), a report file is a record of the   *)
(* parts the regular expressions look at.                                  *)
(***************************************************************************)
EXTENDS Integers, Sequences, FiniteSets, TLC

VARIABLES
    pc,               \* position of the run / of the function under check
    recommendations,  \* calculate_prize argument: list of tickets
    prize_numbers,    \* calculate_prize argument: the draw
    total_prize,      \* calculate_prize result [0]
    prize_counts,     \* calculate_prize result [1]: dict level -> count
    winning_details,  \* calculate_prize result [2]
    report_entry,     \* main_process: the dict handed to manage_report
    csv_content,      \* text of pls.csv as read (None: unreadable)
    period_data,      \* get_period_data_from_csv result [0]: the period map
    periods,          \* get_period_data_from_csv result [1]: the period list
    dir_files,        \* the pls_analysis_output_*.txt files of the directory
    target_period,    \* find_matching_report argument
    glob_list,        \* glob.glob's result: the files in the order it lists them
    report_file,      \* find_matching_report result: <<path>>, or <<>> for None
    log,              \* latest_pls_calculation.txt: [exists, blocks], newest block first
    new_entry,        \* manage_report argument of the latest call: <<dict>>, <<>> for None
    new_error,        \* manage_report argument of the latest call: <<text>>, <<>> for None
    io_result,        \* what the file system did in the latest manage_report call
    run_pc,           \* concurrent runs: each run's position in manage_report
    run_block,        \* concurrent runs: each run's new_content_lines
    run_existing,     \* concurrent runs: each run's existing_content
    run_io,           \* concurrent runs: what the file system did to each run's write
    csv_file,         \* pls.csv: [exists, readable, text]
    eval_period,      \* main_process: periods[-1]
    data_cutoff_period, \* main_process: periods[-2]
    report_content,   \* main_process: the report as read at line 338
    error_msg,        \* main_process: <<reason>> of the exception raised, <<>> if none
    log_at_start      \* the log file as it was when main_process started

prizeVars == <<recommendations, prize_numbers, total_prize, prize_counts,
               winning_details, report_entry>>
csvVars == <<csv_content, period_data, periods>>
locVars == <<dir_files, target_period, glob_list, report_file>>
logVars == <<log, new_entry, new_error, io_result>>
raceVars == <<run_pc, run_block, run_existing, run_io>>
mainVars == <<csv_file, eval_period, data_cutoff_period, report_content, error_msg,
              log_at_start>>
vars == <<pc, prizeVars, csvVars, locVars, logVars, raceVars, mainVars>>

\* None of Python
None == "None"

\* the variables a specification does not use keep these values
PrizeUnused ==
    /\ recommendations = None /\ prize_numbers = None /\ total_prize = None
    /\ prize_counts = None /\ winning_details = None /\ report_entry = None
CsvUnused == csv_content = None /\ period_data = None /\ periods = None
LocatorUnused ==
    /\ dir_files = None /\ target_period = None /\ glob_list = None
    /\ report_file = None
LogUnused == log = None /\ new_entry = None /\ new_error = None /\ io_result = None
RaceUnused == run_pc = None /\ run_block = None /\ run_existing = None /\ run_io = None
MainUnused ==
    /\ csv_file = None /\ eval_period = None /\ data_cutoff_period = None
    /\ report_content = None /\ error_msg = None /\ log_at_start = None

Range(s) == {s[i] : i \in DOMAIN s}

RECURSIVE SeqsUpTo(_, _)
\* all sequences over S of length 0..n
SeqsUpTo(S, n) ==
    IF n = 0 THEN {<<>>}
    ELSE LET shorter == SeqsUpTo(S, n - 1)
         IN  shorter \cup {Append(s, x) : s \in {t \in shorter : Len(t) = n - 1}, x \in S}

(***************************************************************************)
(* Bounds of the prize-engine check                                        *)
(***************************************************************************)
MaxDigit == 2
MaxTickets == 2

Digits == 0..MaxDigit
Tickets == {<<a, b, c>> : a \in Digits, b \in Digits, c \in Digits}

\* calculate_prize compares digits only for equality and treats the three
\* positions alike: every draw is one of these up to renaming the digits and
\* permuting the positions of the draw and of all tickets together
DrawShapes == {<<0, 1, 2>>, <<0, 0, 1>>, <<0, 0, 0>>}

(***************************************************************************)
(* Prize engine: PRIZE_TABLE and calculate_prize                           *)
(***************************************************************************)
\* "zhixuan" = 直选, "zuxuan3" = 组选3, "zuxuan6" = 组选6
PRIZE_TABLE == [zhixuan |-> 1000, zuxuan3 |-> 333, zuxuan6 |-> 167]

\* the per-ticket branch of the loop body: the level credited, or None
PrizeLevelSetFirst(rec_numbers, prize_nums) ==
    IF Range(rec_numbers) = Range(prize_nums)
    THEN IF Cardinality(Range(rec_numbers)) = 3 THEN "zuxuan6" ELSE "zuxuan3"
    ELSE IF rec_numbers = prize_nums THEN "zhixuan" ELSE None

PrizeLevel(rec_numbers, prize_nums) ==
    IF rec_numbers = prize_nums THEN "zhixuan"
    ELSE LET rec_set == Range(rec_numbers)
             prize_set == Range(prize_nums)
         IN  IF rec_set = prize_set
             THEN IF Cardinality(rec_set) = 3 THEN "zuxuan6" ELSE "zuxuan3"
             ELSE None

\* prize_counts.get(level, 0)
DictGet(d, k, default) == IF k \in DOMAIN d THEN d[k] ELSE default

\* prize_counts[level] = prize_counts.get(level, 0) + 1
DictIncr(d, k) ==
    [x \in DOMAIN d \cup {k} |-> IF x = k THEN DictGet(d, k, 0) + 1 ELSE d[x]]

\* the three updates made for a winning ticket; i is enumerate's 0-based index
CreditZeroBased(acc, i, rec_numbers, prize_level) ==
    [total_prize |-> acc.total_prize + PRIZE_TABLE[prize_level],
     prize_counts |-> DictIncr(acc.prize_counts, prize_level),
     winning_details |-> Append(acc.winning_details,
         [ticket_id |-> i, numbers |-> rec_numbers,
          prize_level |-> prize_level, amount |-> PRIZE_TABLE[prize_level]])]

Credit(acc, i, rec_numbers, prize_level) ==
    [total_prize |-> acc.total_prize + PRIZE_TABLE[prize_level],
     prize_counts |-> DictIncr(acc.prize_counts, prize_level),
     winning_details |-> Append(acc.winning_details,
         [ticket_id |-> i + 1, numbers |-> rec_numbers,
          prize_level |-> prize_level, amount |-> PRIZE_TABLE[prize_level]])]

RECURSIVE PrizeLoop(_, _, _, _)
\* for i, rec_numbers in enumerate(recommendations), from 0-based index i on
PrizeLoop(recs, prize_nums, i, acc) ==
    IF i >= Len(recs) THEN acc
    ELSE LET rec_numbers == recs[i + 1]
             prize_level == PrizeLevel(rec_numbers, prize_nums)
         IN  PrizeLoop(recs, prize_nums, i + 1,
                 IF prize_level = None THEN acc
                 ELSE Credit(acc, i, rec_numbers, prize_level))

calculate_prize(recs, prize_nums) ==
    PrizeLoop(recs, prize_nums, 0,
        [total_prize |-> 0, prize_counts |-> <<>>, winning_details |-> <<>>])

\* "{a}{b}{c}": the three digits written one after the other
DigitsStr(numbers) == <<numbers[1], numbers[2], numbers[3]>>

\* format_winning_details: the lines of the block, as records
format_winning_details(details, prize_nums) ==
    IF details = <<>> THEN << [line |-> "no_win"] >>
    ELSE << [line |-> "draw", numbers_str |-> DigitsStr(prize_nums)],
            [line |-> "blank"] >>
         \o [k \in 1..Len(details) |->
                [line |-> "ticket", ticket_id |-> details[k].ticket_id,
                 numbers_str |-> DigitsStr(details[k].numbers),
                 prize_level |-> details[k].prize_level,
                 amount |-> details[k].amount]]

\* main_process lines 357-365; the timestamp is left out
ReportEntry(period, prize_nums, recs, total, details) ==
    [period |-> period,
     prize_numbers |-> DigitsStr(prize_nums),
     total_recommendations |-> Len(recs),
     winning_count |-> Len(details),
     total_prize |-> total,
     winning_details |-> format_winning_details(details, prize_nums)]

(***************************************************************************)
(* robust_file_read: <<text>> of a file that exists and that one of the    *)
(* encodings opens, <<>> (None) otherwise.  A file is [exists, readable,   *)
(* text, ...].                                                             *)
(***************************************************************************)
robust_file_read(file) ==
    IF ~file.exists THEN <<>>
    ELSE IF file.readable THEN <<file.text>>
    ELSE <<>>

(***************************************************************************)
(* Draw history store: get_period_data_from_csv                            *)
(*                                                                         *)
(* The text is the sequence of its lines, each line the sequence of its    *)
(* fields as csv.reader splits them (CsvError: a line csv.reader raises    *)
(* on).  A period field is the sequence of its characters; a number field  *)
(* is its text, which int() reads through IntText.                         *)
(***************************************************************************)
MaxRows == 3

DigitChars == {"0", "1", "2", "3", "4", "5", "6", "7", "8", "9"}
DigitValue(c) ==
    CASE c = "0" -> 0 [] c = "1" -> 1 [] c = "2" -> 2 [] c = "3" -> 3
      [] c = "4" -> 4 [] c = "5" -> 5 [] c = "6" -> 6 [] c = "7" -> 7
      [] c = "8" -> 8 [] c = "9" -> 9

\* re.match(r'^\d{4,7}$', field)
PeriodLenMin == 4
PeriodLenMax == 7
MatchesPeriodPattern(field) ==
    /\ Len(field) >= PeriodLenMin
    /\ Len(field) <= PeriodLenMax
    /\ \A k \in DOMAIN field : field[k] \in DigitChars

RECURSIVE IntOfDigits(_)
\* int(period) of a string of decimal digits
IntOfDigits(field) ==
    IF field = <<>> THEN 0
    ELSE 10 * IntOfDigits(SubSeq(field, 1, Len(field) - 1))
         + DigitValue(field[Len(field)])

\* int(text) for the number fields drawn below; a text outside the domain
\* raises ValueError
IntText == [t \in {"0", "1", "2", "3", "4", "5", "6", "9", "10", "-1"} |->
              CASE t = "10" -> 10 [] t = "-1" -> 0 - 1 [] OTHER -> DigitValue(t)]
IsIntText(t) == t \in DOMAIN IntText

\* a line csv.reader raises csv.Error on (it holds a NUL character)
CsvError == << <<"NUL">> >>

\* what one data row does to (period_map, periods_list): lines 105-114
ParseRow(acc, row) ==
    IF /\ Len(row) >= 4
       /\ MatchesPeriodPattern(row[1])
       /\ \A k \in 2..4 : IsIntText(row[k])
       /\ \A k \in 2..4 : 0 <= IntText[row[k]] /\ IntText[row[k]] <= 9
    THEN [period_map |->
             [p \in DOMAIN acc.period_map \cup {row[1]} |->
                 IF p = row[1]
                 THEN [numbers |-> <<IntText[row[2]], IntText[row[3]], IntText[row[4]]>>]
                 ELSE acc.period_map[p]],
          periods_list |-> Append(acc.periods_list, row[1])]
    ELSE acc

RECURSIVE ParseRows(_, _, _)
\* for i, row in enumerate(reader), from line k on
ParseRows(lines, k, acc) ==
    IF k > Len(lines) THEN acc
    ELSE ParseRows(lines, k + 1, ParseRow(acc, lines[k]))

RECURSIVE InsertByKey(_, _, _)
\* x placed after every element whose key is not larger: a stable insertion
InsertByKey(sorted, x, key) ==
    IF sorted = <<>> THEN <<x>>
    ELSE IF key[x] < key[sorted[Len(sorted)]]
         THEN Append(InsertByKey(SubSeq(sorted, 1, Len(sorted) - 1), x, key),
                     sorted[Len(sorted)])
         ELSE Append(sorted, x)

RECURSIVE SortedByKey(_, _)
\* sorted(list, key=...): stable, ascending; key is the key of each element
SortedByKey(list, key) ==
    IF list = <<>> THEN <<>>
    ELSE InsertByKey(SortedByKey(SubSeq(list, 1, Len(list) - 1), key),
                     list[Len(list)], key)

\* sorted(periods_list, key=int)
SortPeriods(periods_list) ==
    SortedByKey(periods_list, [p \in Range(periods_list) |-> IntOfDigits(p)])

\* (None, None)
NoPeriodData == [none |-> TRUE, period_map |-> <<>>, periods |-> <<>>]

\* "if not csv_content": None, or a text of no line
FalsyCsv(content) == content = <<>> \/ content[1] = <<>>

\* the (period_map, periods) pair returned; content is <<lines>> or <<>>
get_period_data_from_csv(content) ==
    IF FalsyCsv(content) THEN NoPeriodData
    ELSE IF \E k \in DOMAIN content[1] : content[1][k] = CsvError THEN NoPeriodData
    ELSE LET acc == ParseRows(content[1], 2, [period_map |-> <<>>, periods_list |-> <<>>])
         IN  IF DOMAIN acc.period_map = {} THEN NoPeriodData
             ELSE [none |-> FALSE,
                   period_map |-> acc.period_map,
                   periods |-> SortPeriods(acc.periods_list)]

(***************************************************************************)
(* SpecCsv: get_period_data_from_csv on every dataset made of a header     *)
(* and up to MaxRows lines drawn from CsvLines                             *)
(***************************************************************************)
HeaderRow == <<"period", "d1", "d2", "d3">>
Period1001 == <<"1", "0", "0", "1">>
Period1002 == <<"1", "0", "0", "2">>
PeriodFields ==
    { <<"1", "0", "0", "1">>,          \* "1001"
      <<"9", "9", "9", "9">>,          \* "9999"
      <<"1", "0", "0", "0", "0">>,     \* "10000": after "9999" only by value
      <<"0", "1", "0", "0", "1">>,     \* "01001": the value of "1001"
      <<"9", "9", "9">>,               \* "999": too short
      <<"1", "0", "0", "x">> }         \* not all digits
NumberFields ==
    { <<"1", "2", "3">>, <<"4", "5", "6">>,
      <<"1", "2", "10">>,              \* out of range
      <<"1", "x", "3">>,               \* int() raises ValueError
      <<"1", "2">> }                   \* a row of 3 fields
\* every period field with good numbers, every number triple under "1001",
\* and a line on which csv.reader raises
CsvLines ==
    {<<p>> \o <<"1", "2", "3">> : p \in PeriodFields}
        \cup {<<Period1001>> \o n : n \in NumberFields}
        \cup {CsvError}
CsvTexts == {<<HeaderRow>> \o rows : rows \in SeqsUpTo(CsvLines, MaxRows)} \cup {<<>>}

InitCsv ==
    /\ pc = "parse"
    /\ csv_content \in {<<t>> : t \in CsvTexts}
    /\ period_data = None /\ periods = None
    /\ PrizeUnused /\ LocatorUnused /\ LogUnused /\ RaceUnused /\ MainUnused

\* main_process line 319, on a dataset that parses
ParseOk ==
    /\ pc = "parse"
    /\ ~get_period_data_from_csv(csv_content).none
    /\ period_data' = get_period_data_from_csv(csv_content).period_map
    /\ periods' = get_period_data_from_csv(csv_content).periods
    /\ pc' = "parsed"
    /\ UNCHANGED <<csv_content, prizeVars, locVars, logVars, raceVars, mainVars>>

\* main_process lines 319-321, on a dataset that yields (None, None)
ParseFails ==
    /\ pc = "parse"
    /\ get_period_data_from_csv(csv_content).none
    /\ pc' = "failed"
    /\ UNCHANGED <<csv_content, period_data, periods, prizeVars, locVars, logVars, raceVars, mainVars>>

NextCsv == ParseOk \/ ParseFails

SpecCsv == InitCsv /\ [][NextCsv]_vars

(***************************************************************************)
(* Claims on the draw history store (checked under SpecCsv)                *)
(***************************************************************************)
\* the valid data rows of the dataset, in file order, as the claim reads them
ValidRowIndexes ==
    {k \in 2..Len(csv_content[1]) :
        LET row == csv_content[1][k]
        IN  /\ Len(row) >= 4
            /\ MatchesPeriodPattern(row[1])
            /\ \A j \in 2..4 : row[j] \in {"0", "1", "2", "3", "4", "5", "6", "7", "8", "9"}}
LastRowOf(p) ==
    CHOOSE k \in ValidRowIndexes :
        /\ csv_content[1][k][1] = p
        /\ \A j \in ValidRowIndexes : csv_content[1][j][1] = p => j <= k

\* C5: for a dataset that parses, the period list is strictly increasing by
\* numeric value and holds no period twice, also with several valid rows
\* for one period (the map then holds the digits of the last such row).
C5_StrictlyIncreasingNoDuplicates ==
    pc = "parsed" =>
        /\ \A k \in 1..(Len(periods) - 1) :
               IntOfDigits(periods[k]) < IntOfDigits(periods[k + 1])
        /\ \A j, k \in DOMAIN periods : j # k => periods[j] # periods[k]
        /\ \A p \in DOMAIN period_data :
               period_data[p].numbers =
                   [j \in 1..3 |-> DigitValue(csv_content[1][LastRowOf(p)][j + 1])]

(***************************************************************************)
(* Report locator: robust_file_read and find_matching_report               *)
(*                                                                         *)
(* A report file is [middle, stamp, exists, readable, text].  Its path is          *)
(* <dir>/pls_analysis_output_<middle>_<stamp>.txt: middle is a letter,     *)
(* written as its rank, and stamp is the <<day, hour>> of the              *)
(* YYYYMMDD_HHMMSS suffix, or <<>> when the name ends in no such suffix.   *)
(* text is [empty, marker, segments]: marker is <<p>> when the first       *)
(* "分析基于数据: 截至 p 期" of the text names p and <<>> when there is    *)
(* none; segments are the bracketed digit lists of its "注 N: [...]"       *)
(* parts.                                                                  *)
(***************************************************************************)
MaxFiles == 2

\* "if not content": None, or the empty string
FalsyReport(content) == content = <<>> \/ content[1].empty

\* datetime.strptime(stamp, "%Y%m%d_%H%M%S") raises ValueError
StampParses(stamp) ==
    /\ stamp[1] >= 1 /\ stamp[1] <= 31
    /\ stamp[2] >= 0 /\ stamp[2] <= 23

PathOf(file) == [middle |-> file.middle, stamp |-> file.stamp]

RECURSIVE SeqLess(_, _)
\* a < b for strings (sequences of character ranks) and for tuples of numbers
SeqLess(a, b) ==
    IF a = <<>> THEN b # <<>>
    ELSE IF b = <<>> THEN FALSE
    ELSE IF a[1] # b[1] THEN a[1] < b[1]
    ELSE SeqLess(Tail(a), Tail(b))

\* the characters of a path that differ between two files of the directory
PathText(path) == <<path.middle>> \o path.stamp

\* (timestamp, file_path) < (timestamp, file_path) of Python tuples
CandidateLess(a, b) ==
    IF a.timestamp # b.timestamp THEN SeqLess(a.timestamp, b.timestamp)
    ELSE SeqLess(PathText(a.file_path), PathText(b.file_path))

RECURSIVE InsertCandidate(_, _)
InsertCandidate(sorted, x) ==
    IF sorted = <<>> THEN <<x>>
    ELSE IF CandidateLess(x, sorted[Len(sorted)])
         THEN Append(InsertCandidate(SubSeq(sorted, 1, Len(sorted) - 1), x),
                     sorted[Len(sorted)])
         ELSE Append(sorted, x)

RECURSIVE SortCandidates(_)
\* candidates.sort(): ascending
SortCandidates(list) ==
    IF list = <<>> THEN <<>>
    ELSE InsertCandidate(SortCandidates(SubSeq(list, 1, Len(list) - 1)), list[Len(list)])

Reversed(list) == [k \in 1..Len(list) |-> list[Len(list) + 1 - k]]

\* candidates.sort(reverse=True)
SortAscending(list) == SortCandidates(list)
SortReverse(list) == Reversed(SortCandidates(list))

\* lines 139-151: the candidate a file contributes, as a list of 0 or 1
CandidateOf(file, target) ==
    LET content == robust_file_read(file)
    IN  IF FalsyReport(content) THEN <<>>
        ELSE IF content[1].marker # <<>> /\ content[1].marker[1] = target
             THEN IF file.stamp # <<>> /\ StampParses(file.stamp)
                  THEN << [timestamp |-> file.stamp, file_path |-> PathOf(file)] >>
                  ELSE <<>>
             ELSE <<>>

RECURSIVE CollectCandidates(_, _, _)
\* for file_path in glob.glob(...), from the k-th listed file on
CollectCandidates(listing, k, target) ==
    IF k > Len(listing) THEN <<>>
    ELSE CandidateOf(listing[k], target) \o CollectCandidates(listing, k + 1, target)

\* <<path>> of the report found, <<>> for None
find_matching_report(listing, target) ==
    LET candidates == CollectCandidates(listing, 1, target)
    IN  IF candidates = <<>> THEN <<>>
        ELSE << SortReverse(candidates)[1].file_path >>

(***************************************************************************)
(* Ticket extractor: parse_recommendations_from_report.  A segment is the  *)
(* list of the digit characters found between the brackets, as numbers.    *)
(***************************************************************************)
RECURSIVE KeepTickets(_)
KeepTickets(segments) ==
    IF segments = <<>> THEN <<>>
    ELSE LET numbers == segments[1]
         IN  (IF Len(numbers) = 3 /\ \A k \in DOMAIN numbers : 0 <= numbers[k] /\ numbers[k] <= 9
              THEN <<numbers>> ELSE <<>>)
             \o KeepTickets(Tail(segments))

parse_recommendations_from_report(content) == KeepTickets(content.segments)

(***************************************************************************)
(* SpecLocator: find_matching_report on every directory of up to MaxFiles  *)
(* files, listed by glob in every order                                    *)
(***************************************************************************)
Middles == {1, 2}
Stamps == {<<>>, <<0, 9>>, <<1, 9>>, <<1, 10>>, <<2, 9>>}
LocatorTexts ==
    { [empty |-> TRUE, marker |-> <<>>, segments |-> <<>>],
      [empty |-> FALSE, marker |-> <<>>, segments |-> <<>>],
      [empty |-> FALSE, marker |-> <<Period1001>>, segments |-> <<>>],
      [empty |-> FALSE, marker |-> <<Period1002>>, segments |-> <<>>] }
\* robust_file_read never looks at the text of a file it cannot decode
LocatorFiles ==
    [middle : Middles, stamp : Stamps, exists : {TRUE}, readable : {TRUE},
     text : LocatorTexts]
        \cup [middle : Middles, stamp : Stamps, exists : {TRUE}, readable : {FALSE},
              text : {[empty |-> FALSE, marker |-> <<Period1001>>, segments |-> <<>>]}]

RECURSIVE Directories(_, _)
\* the sets of up to n files: no two files of a directory have the same path
Directories(Files, n) ==
    IF n = 0 THEN {{}}
    ELSE LET smaller == Directories(Files, n - 1)
         IN  smaller \cup
             UNION { {d \cup {f} : f \in {g \in Files : \A h \in d : PathOf(h) # PathOf(g)}}
                     : d \in smaller }

\* the orders in which glob may list the files of d
Listings(d) ==
    {l \in [1..Cardinality(d) -> d] : \A j, k \in 1..Cardinality(d) : l[j] = l[k] => j = k}

InitLocator ==
    /\ pc = "glob"
    /\ dir_files \in Directories(LocatorFiles, MaxFiles)
    /\ target_period \in {Period1001, Period1002}
    /\ glob_list = None
    /\ report_file = None
    /\ PrizeUnused /\ CsvUnused /\ LogUnused /\ RaceUnused /\ MainUnused

\* line 138: glob.glob lists the files in an order of its own
Glob ==
    /\ pc = "glob"
    /\ glob_list' \in Listings(dir_files)
    /\ pc' = "locate"
    /\ UNCHANGED <<dir_files, target_period, report_file, prizeVars, csvVars, logVars, raceVars, mainVars>>

\* lines 139-160
Locate ==
    /\ pc = "locate"
    /\ report_file' = find_matching_report(glob_list, target_period)
    /\ pc' = "located"
    /\ UNCHANGED <<dir_files, target_period, glob_list, prizeVars, csvVars, logVars, raceVars, mainVars>>

NextLocator == Glob \/ Locate

SpecLocator == InitLocator /\ [][NextLocator]_vars

(***************************************************************************)
(* Claims on the report locator (checked under SpecLocator)                *)
(***************************************************************************)
\* the claim's eligible files: readable text, declared cutoff period equal
\* to the target, a filename timestamp that parses
Eligible(f) ==
    /\ f.readable
    /\ f.text.marker = <<target_period>>
    /\ f.stamp # <<>>
    /\ f.stamp[1] \in 1..31 /\ f.stamp[2] \in 0..23
EligibleFiles == {f \in dir_files : Eligible(f)}
\* day and hour as one number: later timestamp, larger number
StampNumber(stamp) == stamp[1] * 100 + stamp[2]

\* C7: the file returned is eligible and its timestamp is the maximum among
\* the eligible files; None is returned iff no file is eligible; the file
\* returned depends on the set of files only (here: with equal timestamps,
\* the file with the larger path), not on the order glob lists them in.
C7_LatestEligible ==
    pc = "located" =>
        /\ (report_file = <<>>) <=> (EligibleFiles = {})
        /\ report_file # <<>> =>
               \E f \in EligibleFiles :
                   /\ PathOf(f) = report_file[1]
                   /\ \A g \in EligibleFiles : StampNumber(g.stamp) <= StampNumber(f.stamp)
                   /\ \A g \in EligibleFiles :
                          StampNumber(g.stamp) = StampNumber(f.stamp) => g.middle <= f.middle

\* two eligible files with equal timestamps, listed smaller path last
C7_Witness ==
    /\ pc = "located"
    /\ Cardinality(EligibleFiles) = 2
    /\ \A f, g \in EligibleFiles : f.stamp = g.stamp
    /\ glob_list[2].middle = 1
    /\ report_file # <<>>
    /\ report_file[1].middle = 2

(***************************************************************************)
(* SpecPrize: calculate_prize and the entry built from its result, on      *)
(* every ticket list and draw within the bounds                            *)
(***************************************************************************)
InitPrize ==
    /\ pc = "evaluate"
    /\ \E n \in 0..MaxTickets : recommendations \in [1..n -> Tickets]
    /\ prize_numbers \in DrawShapes
    /\ total_prize = None
    /\ prize_counts = None
    /\ winning_details = None
    /\ report_entry = None
    /\ CsvUnused /\ LocatorUnused /\ LogUnused /\ RaceUnused /\ MainUnused

\* main_process lines 351-365: the evaluation and the entry built from it
Evaluate ==
    /\ pc = "evaluate"
    /\ LET r == calculate_prize(recommendations, prize_numbers)
       IN  /\ total_prize' = r.total_prize
           /\ prize_counts' = r.prize_counts
           /\ winning_details' = r.winning_details
           /\ report_entry' = ReportEntry(None, prize_numbers, recommendations,
                                          r.total_prize, r.winning_details)
    /\ pc' = "persist"
    /\ UNCHANGED <<recommendations, prize_numbers, csvVars, locVars, logVars, raceVars, mainVars>>

NextPrize == Evaluate

SpecPrize == InitPrize /\ [][NextPrize]_vars

(***************************************************************************)
(* Claims on the prize engine (checked under SpecPrize)                    *)
(***************************************************************************)
Evaluated == pc = "persist"

\* the claims' own reading of a ticket against the draw
ExactMatch(t, d) == \A j \in 1..3 : t[j] = d[j]
SameDigitSet(t, d) == {t[j] : j \in 1..3} = {d[j] : j \in 1..3}
ThreeDistinct(t) == t[1] # t[2] /\ t[1] # t[3] /\ t[2] # t[3]
Occurrences(t, x) == Cardinality({j \in 1..3 : t[j] = x})
SameMultiset(t, d) == \A x \in Range(t) \cup Range(d) : Occurrences(t, x) = Occurrences(d, x)

\* the entries of winning_details that credit ticket number i (1-based)
CreditsOf(i) == {k \in DOMAIN winning_details : winning_details[k].ticket_id = i}
Credited(i, level, amount) ==
    \E k \in CreditsOf(i) : /\ winning_details[k].prize_level = level
                             /\ winning_details[k].amount = amount

C9_GroupNeedsSameMultiset ==
    Evaluated =>
        \A i \in 1..Len(recommendations) :
            LET t == recommendations[i]
                d == prize_numbers
            IN  /\ Credited(i, "zuxuan3", 333) => (SameMultiset(t, d) /\ ~ThreeDistinct(t))
                /\ Credited(i, "zuxuan6", 167) => (SameMultiset(t, d) /\ ThreeDistinct(t))
                /\ ~SameMultiset(t, d) => CreditsOf(i) = {}

\* the tier the claims assign to ticket t against draw d (None: no win)
ClaimedTier(t, d) ==
    IF ExactMatch(t, d) THEN "zhixuan"
    ELSE IF SameDigitSet(t, d) /\ ThreeDistinct(t) THEN "zuxuan6"
    ELSE IF SameDigitSet(t, d) THEN "zuxuan3"
    ELSE None
ClaimedAmount(level) ==
    CASE level = "zhixuan" -> 1000
      [] level = "zuxuan3" -> 333
      [] level = "zuxuan6" -> 167
      [] OTHER -> 0
WinningTickets ==
    {i \in 1..Len(recommendations) : ClaimedTier(recommendations[i], prize_numbers) # None}
TicketsInTier(level) ==
    {i \in 1..Len(recommendations) : ClaimedTier(recommendations[i], prize_numbers) = level}
RECURSIVE SumOver(_, _)
SumOver(S, f) ==
    IF S = {} THEN 0
    ELSE LET x == CHOOSE y \in S : TRUE
         IN  f[x] + SumOver(S \ {x}, f)
AmountOfTicket ==
    [i \in 1..Len(recommendations) |->
        ClaimedAmount(ClaimedTier(recommendations[i], prize_numbers))]

\* C8: the total is the sum of the winning tickets' amounts; the tier counts
\* are the numbers of tickets in each tier; the details hold exactly the
\* winning tickets, each with its 1-based position and digits, in ticket
\* order; with no winner the total is 0 and the details are empty; the
\* entry built for the log reports winning count = number of details.
C8_TotalsAndDetails ==
    Evaluated =>
        LET winners == WinningTickets
            details == winning_details
        IN  /\ total_prize = SumOver(winners, AmountOfTicket)
            /\ \A level \in {"zhixuan", "zuxuan3", "zuxuan6"} :
                   DictGet(prize_counts, level, 0) = Cardinality(TicketsInTier(level))
            /\ DOMAIN prize_counts \subseteq {"zhixuan", "zuxuan3", "zuxuan6"}
            /\ {details[k].ticket_id : k \in DOMAIN details} = winners
            /\ Len(details) = Cardinality(winners)
            /\ \A k \in DOMAIN details :
                   LET w == details[k]
                   IN  /\ w.numbers = recommendations[w.ticket_id]
                       /\ w.prize_level = ClaimedTier(w.numbers, prize_numbers)
                       /\ w.amount = ClaimedAmount(w.prize_level)
            /\ \A k \in 1..(Len(details) - 1) :
                   details[k].ticket_id < details[k + 1].ticket_id
            /\ winners = {} => (total_prize = 0 /\ details = <<>>)
            /\ pc = "persist" =>
                   /\ report_entry.winning_count = Len(details)
                   /\ report_entry.winning_count = Cardinality(winners)
                   /\ report_entry.total_prize = total_prize

\* a losing ticket, then a Group6 ticket: the entry counts one winner, the
\* detail names ticket 2
C8_Witness ==
    /\ pc = "persist"
    /\ Len(recommendations) = 2
    /\ Len(winning_details) = 1
    /\ winning_details[1].ticket_id = 2
    /\ winning_details[1].prize_level = "zuxuan6"
    /\ report_entry.winning_count = 1
    /\ total_prize = 167

(***************************************************************************)
(* Report writer: manage_report                                            *)
(*                                                                         *)
(* The log file is [exists, blocks]: blocks are the records of its text,   *)
(* first in the file first.  A block is [kind, entry, message]; the "评估  *)
(* 时间" / "错误时间" line of a block is left out.  io names what the file *)
(* system does in the call: "ok"; "read_fails" (no encoding opens the      *)
(* existing file, robust_file_read returns None); "open_fails" (open(...,  *)
(* 'w') raises, the file is untouched); "write_fails" (open has truncated  *)
(* the file and f.write raises).                                           *)
(***************************************************************************)
MAX_NORMAL_RECORDS == 10
MAX_ERROR_LOGS == 20

IoResults == {"ok", "read_fails", "open_fails", "write_fails"}

NoEntry == [period |-> <<>>, prize_numbers |-> <<>>, total_recommendations |-> 0,
            winning_count |-> 0, total_prize |-> 0, winning_details |-> <<>>]

\* "if new_entry:" / "if new_error:": not None, not an empty dict or string
TruthyEntry(entry_arg) == entry_arg # <<>> /\ entry_arg[1] # NoEntry
TruthyError(error_arg) == error_arg # <<>> /\ error_arg[1] # ""

\* lines 260-263
ExistingContent(file, io) ==
    IF file.exists
    THEN IF io = "read_fails" THEN <<>> ELSE file.blocks
    ELSE <<>>

\* lines 266-289: new_content_lines, as blocks
NewContentLines(entry_arg, error_arg) ==
    (IF TruthyEntry(entry_arg)
     THEN << [kind |-> "entry", entry |-> entry_arg[1], message |-> ""] >>
     ELSE <<>>)
    \o
    (IF TruthyError(error_arg)
     THEN << [kind |-> "error", entry |-> NoEntry, message |-> error_arg[1]] >>
     ELSE <<>>)

\* lines 291-295
AppendedContent(new_content_lines, existing_content) ==
    existing_content \o new_content_lines

FinalContent(new_content_lines, existing_content) ==
    IF new_content_lines # <<>>
    THEN new_content_lines \o existing_content
    ELSE existing_content

\* lines 297-303: the file after the write, failed or not
KeepsNewestRecords(file, final_content, io) ==
    IF io = "open_fails" THEN file
    ELSE IF io = "write_fails" THEN [exists |-> TRUE, blocks |-> <<>>]
    ELSE [exists |-> TRUE,
          blocks |-> SubSeq(final_content, 1,
                        IF Len(final_content) < MAX_NORMAL_RECORDS
                        THEN Len(final_content) ELSE MAX_NORMAL_RECORDS)]

WrittenFile(file, final_content, io) ==
    IF io = "open_fails" THEN file
    ELSE IF io = "write_fails" THEN [exists |-> TRUE, blocks |-> <<>>]
    ELSE [exists |-> TRUE, blocks |-> final_content]

\* the log file after manage_report(new_entry, new_error)
manage_report(file, entry_arg, error_arg, io) ==
    WrittenFile(file,
        FinalContent(NewContentLines(entry_arg, error_arg), ExistingContent(file, io)),
        io)

(***************************************************************************)
(* SpecLog: any sequence of manage_report calls, one after the other,      *)
(* while the log holds fewer than MaxBlocks blocks                         *)
(***************************************************************************)
MaxBlocks == 11

SampleDraw == <<4, 5, 6>>
SampleTickets == << <<1, 2, 3>>, <<4, 6, 5>>, <<7, 8, 9>> >>
SampleEntry ==
    LET r == calculate_prize(SampleTickets, SampleDraw)
    IN  ReportEntry(<<"1", "0", "0", "2">>, SampleDraw, SampleTickets,
                    r.total_prize, r.winning_details)
EntryArgs == {<<>>, <<SampleEntry>>}
ErrorArgs == {<<>>, <<"">>, <<"no_report">>}

InitLog ==
    /\ pc = "idle"
    /\ log \in {[exists |-> FALSE, blocks |-> <<>>], [exists |-> TRUE, blocks |-> <<>>]}
    /\ new_entry = <<>>
    /\ new_error = <<>>
    /\ io_result = "ok"
    /\ PrizeUnused /\ CsvUnused /\ LocatorUnused /\ RaceUnused /\ MainUnused

\* one call of manage_report, lines 255-303
ManageReport ==
    /\ Len(log.blocks) < MaxBlocks
    /\ \E entry_arg \in EntryArgs, error_arg \in ErrorArgs, io \in IoResults :
          /\ new_entry' = entry_arg
          /\ new_error' = error_arg
          /\ io_result' = io
          /\ log' = manage_report(log, entry_arg, error_arg, io)
    /\ UNCHANGED <<pc, prizeVars, csvVars, locVars, raceVars, mainVars>>

NextLog == ManageReport

SpecLog == InitLog /\ [][NextLog]_vars

(***************************************************************************)
(* Claims on the report writer (checked under SpecLog)                     *)
(***************************************************************************)
BlocksOfKind(kind) == {k \in DOMAIN log.blocks : log.blocks[k].kind = kind}

\* C3: after any sequence of manage_report calls the log holds at most
\* MAX_NORMAL_RECORDS (10) outcome blocks and at most MAX_ERROR_LOGS (20)
\* error blocks.
C3_RetentionLimits ==
    /\ Cardinality(BlocksOfKind("entry")) <= MAX_NORMAL_RECORDS
    /\ Cardinality(BlocksOfKind("error")) <= MAX_ERROR_LOGS

\* the latest step was a manage_report call with a new outcome or error
CallWithRecord ==
    /\ <<log, new_entry, new_error, io_result>>' # <<log, new_entry, new_error, io_result>>
    /\ (new_entry' # <<>> /\ new_entry'[1] # NoEntry) \/ (new_error' # <<>> /\ new_error'[1] # "")
\* the claim's new block(s): the outcome block, the error block
ClaimedBlocks ==
    (IF new_entry' # <<>> /\ new_entry'[1] # NoEntry
     THEN << [kind |-> "entry", entry |-> new_entry'[1], message |-> ""] >> ELSE <<>>)
    \o (IF new_error' # <<>> /\ new_error'[1] # ""
        THEN << [kind |-> "error", entry |-> NoEntry, message |-> new_error'[1]] >> ELSE <<>>)

Runs == {1, 2}
RaceBlocks ==
    { NewContentLines(<<SampleEntry>>, <<>>),
      NewContentLines(<<>>, <<"no_report">>),
      NewContentLines(<<>>, <<"no_csv">>) }
RaceLogs ==
    { [exists |-> FALSE, blocks |-> <<>>],
      [exists |-> TRUE, blocks |-> <<>>],
      [exists |-> TRUE, blocks |-> NewContentLines(<<SampleEntry>>, <<>>)],
      [exists |-> TRUE, blocks |-> NewContentLines(<<>>, <<"no_tickets">>)] }

InitRace ==
    /\ pc = "race"
    /\ log \in RaceLogs
    /\ run_block \in [Runs -> RaceBlocks]
    /\ run_pc = [p \in Runs |-> "read"]
    /\ run_existing = [p \in Runs |-> <<>>]
    /\ run_io = [p \in Runs |-> "ok"]
    /\ new_entry = None /\ new_error = None /\ io_result = None
    /\ PrizeUnused /\ CsvUnused /\ LocatorUnused /\ MainUnused

\* lines 260-263 of run p
RaceRead(p) ==
    /\ run_pc[p] = "read"
    /\ \E io \in {"ok", "read_fails"} :
          /\ run_existing' = [run_existing EXCEPT ![p] = ExistingContent(log, io)]
          /\ run_io' = [run_io EXCEPT ![p] = io]
    /\ run_pc' = [run_pc EXCEPT ![p] = "write"]
    /\ UNCHANGED <<pc, log, run_block, new_entry, new_error, io_result,
                   prizeVars, csvVars, locVars, mainVars>>

\* lines 291-303 of run p
RaceWrite(p) ==
    /\ run_pc[p] = "write"
    /\ \E io \in {run_io[p], "open_fails", "write_fails"} :
          /\ log' = WrittenFile(log, FinalContent(run_block[p], run_existing[p]), io)
          /\ run_io' = [run_io EXCEPT ![p] = io]
    /\ run_pc' = [run_pc EXCEPT ![p] = "done"]
    /\ UNCHANGED <<pc, run_block, run_existing, new_entry, new_error, io_result,
                   prizeVars, csvVars, locVars, mainVars>>

NextRace == \E p \in Runs : RaceRead(p) \/ RaceWrite(p)

SpecRace == InitRace /\ [][NextRace]_vars

(***************************************************************************)
(* Claim on concurrent runs (checked under SpecRace)                       *)
(***************************************************************************)
BothDoneWithoutError ==
    /\ \A p \in Runs : run_pc[p] = "done"
    /\ \A p \in Runs : run_io[p] = "ok"
\* with both writes done, the runs hold the same existing_content exactly
\* when each read before the other wrote
BothReadBeforeEitherWrote == run_existing[1] = run_existing[2]

\* C10: when both runs read the log before either writes, and neither meets
\* an error, the log ends with the record of one run only, put in front of
\* what both read: the other run's record is lost.
C10_LastWriterWins ==
    (BothDoneWithoutError /\ BothReadBeforeEitherWrote) =>
        /\ Len(log.blocks) = Len(run_existing[1]) + 1
        /\ \E p \in Runs : log.blocks = run_block[p] \o run_existing[p]

\* run 2 wrote last: run 1's outcome record is not in the log
C10_Witness ==
    /\ BothDoneWithoutError
    /\ BothReadBeforeEitherWrote
    /\ run_block[1] = NewContentLines(<<SampleEntry>>, <<>>)
    /\ run_block[2] = NewContentLines(<<>>, <<"no_report">>)
    /\ run_existing[1] = NewContentLines(<<>>, <<"no_tickets">>)
    /\ log.blocks = run_block[2] \o run_existing[2]
    /\ \A k \in DOMAIN log.blocks : log.blocks[k] # run_block[1][1]

(***************************************************************************)
(* SpecMain: one run of main_process, from any dataset, directory and log  *)
(* of the sets below.  Each step is the code between two of the checks     *)
(* that raise; an exception goes to the except clause of lines 378-382     *)
(* (pc = "Failed").                                                        *)
(***************************************************************************)
MaxMainRows == 2
MaxMainFiles == 2

Period01001 == <<"0", "1", "0", "0", "1">>
MainCsvLines ==
    { <<Period1001, "1", "2", "3">>,
      <<Period1001, "4", "5", "6">>,
      <<Period1002, "4", "5", "6">>,
      <<Period01001, "0", "0", "1">>,
      <<<<"9", "9", "9">>, "1", "2", "3">> }
MainCsvFiles ==
    { [exists |-> FALSE, readable |-> FALSE, text |-> <<>>],
      [exists |-> TRUE, readable |-> FALSE, text |-> <<>>],
      [exists |-> TRUE, readable |-> TRUE, text |-> <<>>] }
    \cup { [exists |-> TRUE, readable |-> TRUE, text |-> <<HeaderRow>> \o rows] :
             rows \in SeqsUpTo(MainCsvLines, MaxMainRows) }
MainTexts ==
    [empty : {FALSE}, marker : {<<Period1001>>, <<Period1002>>},
     segments : { <<>>,
                  << <<1, 2>> >>,
                  << <<1, 2, 3>>, <<4, 6, 5>>, <<7, 8, 9, 0>>, <<4, 5, 6>> >> }]
MainFiles ==
    [middle : {1}, stamp : {<<1, 9>>, <<2, 9>>}, exists : {TRUE}, readable : {TRUE},
     text : MainTexts]
MainLogs ==
    { [exists |-> FALSE, blocks |-> <<>>],
      [exists |-> TRUE, blocks |-> NewContentLines(<<>>, <<"no_report">>)] }

InitMain ==
    /\ pc = "ReadHistory"
    /\ csv_file \in MainCsvFiles
    /\ dir_files \in Directories(MainFiles, MaxMainFiles)
    /\ log \in MainLogs
    /\ log_at_start = log
    /\ csv_content = <<>> /\ period_data = <<>> /\ periods = <<>>
    /\ eval_period = <<>> /\ data_cutoff_period = <<>>
    /\ target_period = None /\ glob_list = <<>> /\ report_file = <<>>
    /\ report_content = <<>>
    /\ recommendations = <<>> /\ prize_numbers = <<>> /\ total_prize = 0
    /\ prize_counts = <<>> /\ winning_details = <<>> /\ report_entry = NoEntry
    /\ error_msg = <<>>
    /\ new_entry = <<>> /\ new_error = <<>> /\ io_result = "ok"
    /\ RaceUnused

\* lines 311-316
ReadHistory ==
    /\ pc = "ReadHistory"
    /\ csv_content' = robust_file_read(csv_file)
    /\ IF FalsyCsv(robust_file_read(csv_file))
       THEN pc' = "Failed" /\ error_msg' = <<"no_csv">>
       ELSE pc' = "ParseHistory" /\ UNCHANGED error_msg
    /\ UNCHANGED <<period_data, periods, prizeVars, locVars, logVars, raceVars,
                   csv_file, eval_period, data_cutoff_period, report_content,
                   log_at_start>>

\* lines 319-321
ParseHistory ==
    /\ pc = "ParseHistory"
    /\ LET r == get_period_data_from_csv(csv_content)
       IN  /\ period_data' = r.period_map
           /\ periods' = r.periods
           /\ IF r.none \/ DOMAIN r.period_map = {} \/ r.periods = <<>>
              THEN pc' = "Failed" /\ error_msg' = <<"no_valid_data">>
              ELSE pc' = "DetermineEvalPeriod" /\ UNCHANGED error_msg
    /\ UNCHANGED <<csv_content, prizeVars, locVars, logVars, raceVars,
                   csv_file, eval_period, data_cutoff_period, report_content,
                   log_at_start>>

\* lines 324-328
DetermineEvalPeriod ==
    /\ pc = "DetermineEvalPeriod"
    /\ IF Len(periods) < 2
       THEN /\ pc' = "Failed" /\ error_msg' = <<"insufficient_data">>
            /\ UNCHANGED <<eval_period, data_cutoff_period>>
       ELSE /\ eval_period' = periods[Len(periods)]
            /\ data_cutoff_period' = periods[Len(periods) - 1]
            /\ pc' = "LocateReport" /\ UNCHANGED error_msg
    /\ UNCHANGED <<csvVars, prizeVars, locVars, logVars, raceVars,
                   csv_file, report_content, log_at_start>>

\* lines 333-335
LocateReport ==
    /\ pc = "LocateReport"
    /\ \E listing \in Listings(dir_files) :
          /\ glob_list' = listing
          /\ report_file' = find_matching_report(listing, data_cutoff_period)
          /\ IF find_matching_report(listing, data_cutoff_period) = <<>>
             THEN pc' = "Failed" /\ error_msg' = <<"no_report">>
             ELSE pc' = "ReadReport" /\ UNCHANGED error_msg
    /\ UNCHANGED <<csvVars, prizeVars, dir_files, target_period, logVars, raceVars,
                   csv_file, eval_period, data_cutoff_period, report_content,
                   log_at_start>>

\* lines 338-340; the file may have gone since find_matching_report read it
ReadReport ==
    /\ pc = "ReadReport"
    /\ \E file \in dir_files, gone \in BOOLEAN :
          /\ PathOf(file) = report_file[1]
          /\ dir_files' = IF gone THEN dir_files \ {file} ELSE dir_files
          /\ report_content' = robust_file_read([file EXCEPT !.exists = ~gone])
          /\ IF FalsyReport(robust_file_read([file EXCEPT !.exists = ~gone]))
             THEN pc' = "Failed" /\ error_msg' = <<"unreadable_report">>
             ELSE pc' = "ExtractTickets" /\ UNCHANGED error_msg
    /\ UNCHANGED <<csvVars, prizeVars, target_period, glob_list, report_file, logVars,
                   raceVars, csv_file, eval_period, data_cutoff_period, log_at_start>>

\* lines 342-344
ExtractTickets ==
    /\ pc = "ExtractTickets"
    /\ recommendations' = parse_recommendations_from_report(report_content[1])
    /\ IF parse_recommendations_from_report(report_content[1]) = <<>>
       THEN pc' = "Failed" /\ error_msg' = <<"no_tickets">>
       ELSE pc' = "EvaluateTickets" /\ UNCHANGED error_msg
    /\ UNCHANGED <<csvVars, prize_numbers, total_prize, prize_counts, winning_details,
                   report_entry, locVars, logVars, raceVars, csv_file, eval_period,
                   data_cutoff_period, report_content, log_at_start>>

\* lines 347-365
EvaluateTickets ==
    /\ pc = "EvaluateTickets"
    /\ LET numbers == period_data[eval_period].numbers
           r == calculate_prize(recommendations, numbers)
       IN  /\ prize_numbers' = numbers
           /\ total_prize' = r.total_prize
           /\ prize_counts' = r.prize_counts
           /\ winning_details' = r.winning_details
           /\ report_entry' = ReportEntry(eval_period, numbers, recommendations,
                                          r.total_prize, r.winning_details)
    /\ pc' = "Persist"
    /\ UNCHANGED <<csvVars, recommendations, locVars, logVars, raceVars, mainVars>>

\* line 368 (lines 371-376 only print)
Persist ==
    /\ pc = "Persist"
    /\ \E io \in IoResults :
          /\ log' = manage_report(log, <<report_entry>>, <<>>, io)
          /\ io_result' = io
    /\ new_entry' = <<report_entry>>
    /\ new_error' = <<>>
    /\ pc' = "Done"
    /\ UNCHANGED <<csvVars, prizeVars, locVars, raceVars, mainVars>>

\* lines 378-382
Failed ==
    /\ pc = "Failed"
    /\ \E io \in IoResults :
          /\ log' = manage_report(log, <<>>, error_msg, io)
          /\ io_result' = io
    /\ new_entry' = <<>>
    /\ new_error' = error_msg
    /\ pc' = "Done"
    /\ UNCHANGED <<csvVars, prizeVars, locVars, raceVars, mainVars>>

NextMain ==
    \/ ReadHistory \/ ParseHistory \/ DetermineEvalPeriod \/ LocateReport
    \/ ReadReport \/ ExtractTickets \/ EvaluateTickets \/ Persist \/ Failed

SpecMain == InitMain /\ [][NextMain]_vars

(***************************************************************************)
(* Claims on the orchestrator (checked under SpecMain)                     *)
(***************************************************************************)
\* the dataset as the claims read it: its valid rows and their periods
DatasetUnreadableOrEmpty == ~csv_file.exists \/ ~csv_file.readable \/ csv_file.text = <<>>
DatasetValidRows ==
    {k \in 2..Len(csv_file.text) :
        LET row == csv_file.text[k]
        IN  /\ Len(row) >= 4
            /\ MatchesPeriodPattern(row[1])
            /\ \A j \in 2..4 : row[j] \in {"0", "1", "2", "3", "4", "5", "6", "7", "8", "9"}}
KnownPeriods == {csv_file.text[k][1] : k \in DatasetValidRows}

\* the run is past DetermineEvalPeriod
PastDetermineEvalPeriod ==
    \/ pc \in {"LocateReport", "ReadReport", "ExtractTickets", "EvaluateTickets", "Persist"}
    \/ pc \in {"Failed", "Done"} /\ error_msg \in {<<"no_report">>, <<"unreadable_report">>, <<"no_tickets">>}
    \/ pc = "Done" /\ error_msg = <<>>

\* C6: a run gets past DetermineEvalPeriod only with at least 2 known
\* (distinct) periods; then the evaluation period is the numerically latest
\* period and the cutoff period the second-latest one, a different period
\* and numerically smaller; with fewer than 2 known periods the run fails.
C6_CutoffIsAnEarlierPeriod ==
    /\ PastDetermineEvalPeriod =>
          /\ Cardinality(KnownPeriods) >= 2
          /\ eval_period \in KnownPeriods
          /\ data_cutoff_period \in KnownPeriods
          /\ \A p \in KnownPeriods : IntOfDigits(p) <= IntOfDigits(eval_period)
          /\ data_cutoff_period # eval_period
          /\ IntOfDigits(data_cutoff_period) < IntOfDigits(eval_period)
          /\ \A p \in KnownPeriods \ {eval_period} :
                 IntOfDigits(p) <= IntOfDigits(data_cutoff_period)
    /\ (pc = "Done" /\ Cardinality(KnownPeriods) < 2) => error_msg # <<>>

\* a step failed, as the claim lists the failures
AStepFailed ==
    \/ DatasetUnreadableOrEmpty
    \/ KnownPeriods = {}
    \/ Cardinality(KnownPeriods) < 2
    \/ error_msg \in {<<"no_report">>, <<"unreadable_report">>, <<"no_tickets">>}

\* C2: when the run has ended, exactly one record has been put in front of
\* the log as it was: an outcome record if every step succeeded, an error
\* record if any step failed; no run ends without a record persisted.
C2_ExactlyOneRecordPersisted ==
    pc = "Done" =>
        /\ log.exists
        /\ Len(log.blocks) = Len(log_at_start.blocks) + 1
        /\ SubSeq(log.blocks, 2, Len(log.blocks)) = log_at_start.blocks
        /\ AStepFailed => log.blocks[1].kind = "error"
        /\ ~AStepFailed => log.blocks[1].kind = "entry"

====
